---- MODULE Spec2Model ----
(***************************************************************************)
(* Usage enforcement and billing-period accounting of the Real Estate      *)
(* Analyzer: the BEFORE/AFTER INSERT triggers on property_analysis, the    *)
(* signup triggers on auth.users, the row-level policies on                *)
(* analysis_usage and the Stripe webhook handlers that rewrite             *)
(* user_subscriptions and analysis_usage.                                  *)
(*                                                                         *)
(* Time is a tick counter; a calendar month is MonthLen ticks, so          *)
(* DATE_TRUNC('month', t) is the largest multiple of MonthLen below t.     *)
(* One INSERT INTO property_analysis is two steps of its transaction: the  *)
(* BEFORE trigger reads committed rows (READ COMMITTED), the AFTER         *)
(* triggers write and the transaction commits.                             *)
(***************************************************************************)
EXTENDS Integers, FiniteSets, Sequences, Bags, TLC

\* ---------------------------------------------------------------- bounds
MonthLen == 2
MaxTime == 2
MaxAttempts == 4
MaxSeqAttempts == 2
MaxClientAttempts == 5
NumConcurrent == 10
MaxClientCount == 4
MaxPairAttempts == 4
MaxPending == 2
MaxRequests == 3

\* ------------------------------------------------------ program constants
FreeLimit == 3

Users == {"u1"}
NULL == "null"
Plans == {"free", "pro", "enterprise"}
PaidPlans == {"pro", "enterprise"}
Statuses == {"active", "past_due", "canceled", "incomplete"}
\* Statuses of a provider subscription that reach the webhook.
ProviderStatuses == {"active", "past_due", "canceled", "unpaid"}

\* The provider's identifiers: one customer and one subscription per user.
CustomerOf(u) == IF u = "u1" THEN "cus_1" ELSE "cus_2"
SubscriptionOf(u) == IF u = "u1" THEN "sub_1" ELSE "sub_2"
SubIds == {SubscriptionOf(u) : u \in Users}

Times == 0..MaxTime

VARIABLES
  now,        \* CURRENT_TIMESTAMP
  authUsers,  \* rows of auth.users
  subs,       \* rows of public.user_subscriptions
  usage,      \* rows of public.analysis_usage
  analyses,   \* rows of public.property_analysis (a bag)
  inflight,   \* NEW rows that passed the BEFORE trigger, not yet committed
  rejected,   \* per user: inserts rejected with P0001
  gate,       \* the last call of a gate that is not a counted insert
  calls,      \* the calls of the client's incrementAnalysisUsage()
  webhook     \* the provider's unacknowledged events and the last webhook request

vars == <<now, authUsers, subs, usage, analyses, inflight, rejected, gate, calls, webhook>>

\* No gate was called yet.
NoCall == [fn |-> "none", user |-> NULL, readFailed |-> FALSE, allowed |-> FALSE]

\* NumCalls calls of incrementAnalysisUsage(), none started.  seen is the count
\* a call has read; base is the month's count when the first call of the user
\* started, kept for the statement of the properties.
NumCalls == 2
CallIds == 1..NumCalls
NoCalls ==
  [c \in CallIds |-> [fn |-> "none", pc |-> "idle", user |-> NULL, seen |-> 0, base |-> 0]]

\* No request has reached the webhook and the provider has no event to deliver.
\* requests counts the requests answered; the other fields describe the last
\* one: how it came, the status it was answered with, whether an event handler
\* ran (handled) and whether a statement of that handler failed (failed).
NoRequest ==
  [pending |-> {}, requests |-> 0, method |-> "none", configured |-> TRUE,
   sig |-> "none", status |-> 0, handled |-> FALSE, failed |-> FALSE]

\* ------------------------------------------------------------ time helpers
MonthStart(t) == (t \div MonthLen) * MonthLen
MonthEnd(t) == MonthStart(t) + MonthLen

\* ------------------------------------------------------ table row shapes
SubRow(u, plan, status, cus, sid, ps, pe) ==
  [user_id |-> u, plan |-> plan, status |-> status,
   stripe_customer_id |-> cus, stripe_subscription_id |-> sid,
   current_period_start |-> ps, current_period_end |-> pe]

UsageRow(u, n, ps, pe) ==
  [user_id |-> u, analysis_count |-> n, period_start |-> ps, period_end |-> pe]

AnalysisRow(u, plan) ==
  [user_id |-> u, plan_at_time |-> plan]

\* The NEW row of an insert in progress.  txn_month is DATE_TRUNC('month',
\* CURRENT_TIMESTAMP) of the inserting transaction: CURRENT_TIMESTAMP and now()
\* are the transaction's start time, in the BEFORE and the AFTER triggers alike.
NewRow(u, plan, t) ==
  [user_id |-> u, plan_at_time |-> plan, txn_month |-> MonthStart(t)]

\* -------------------------------------------------- subscription resolver
\* SELECT ... WHERE user_id = u AND status = 'active' ORDER BY updated_at DESC
\* LIMIT 1.  UNIQUE(user_id) leaves at most one candidate.
ActiveSubs(S, u) == {r \in S : r.user_id = u /\ r.status = "active"}

\* Variant: the default period is a window that starts at the time of the call.
ResolveSubscriptionRollingWindow(S, u, t) ==
  IF ActiveSubs(S, u) = {}
    THEN [plan |-> "free", period_start |-> t, period_end |-> t + MonthLen]
    ELSE LET r == CHOOSE x \in ActiveSubs(S, u) : TRUE
         IN [plan |-> r.plan, period_start |-> r.current_period_start,
             period_end |-> r.current_period_end]

ResolveSubscription(S, u, t) ==
  IF ActiveSubs(S, u) = {}
    THEN [plan |-> "free", period_start |-> MonthStart(t), period_end |-> MonthEnd(t)]
    ELSE LET r == CHOOSE x \in ActiveSubs(S, u) : TRUE
         IN [plan |-> r.plan, period_start |-> r.current_period_start,
             period_end |-> r.current_period_end]

\* Variant: the count is looked up by period alone, whoever the record is of.
CurrentCountOfPeriod(U, u, ps, pe) ==
  LET rows == {r \in U : r.period_start = ps /\ r.period_end = pe}
  IN IF rows = {} THEN 0
     ELSE (CHOOSE r \in rows : \A q \in rows : q.analysis_count <= r.analysis_count).analysis_count

\* SELECT COALESCE(analysis_count, 0) ... WHERE user_id AND period_start AND
\* period_end; no row leaves v_current_count NULL, which becomes 0.
CurrentCount(U, u, ps, pe) ==
  LET rows == {r \in U : r.user_id = u /\ r.period_start = ps /\ r.period_end = pe}
  IN IF rows = {} THEN 0 ELSE (CHOOSE r \in rows : TRUE).analysis_count

\* ------------------------------------------------------------ table writes
\* INSERT ... ON CONFLICT (user_id) DO NOTHING on user_subscriptions.
InsertSubDoNothing(S, row) ==
  IF \E r \in S : r.user_id = row.user_id THEN S ELSE S \cup {row}

\* Variant: the upsert adds its row beside the stored one.
UpsertSubKeepingStored(S, row) ==
  S \cup {row}

\* supabase .upsert(row, {onConflict: "user_id"}) on user_subscriptions: every
\* column of the payload replaces the stored one.
UpsertSub(S, row) ==
  {r \in S : r.user_id # row.user_id} \cup {row}

\* INSERT ... ON CONFLICT (user_id, period_start) DO NOTHING on analysis_usage.
InsertUsageDoNothing(U, row) ==
  IF \E r \in U : r.user_id = row.user_id /\ r.period_start = row.period_start
    THEN U ELSE U \cup {row}

\* Variant: the increment adds a row with the next count and leaves the
\* stored row in place.
UpsertIncrementAppending(U, u, ps, pe) ==
  LET rows == {r \in U : r.user_id = u /\ r.period_start = ps}
      n == IF rows = {} THEN 0 ELSE (CHOOSE r \in rows : TRUE).analysis_count
  IN U \cup {UsageRow(u, n + 1, ps, pe)}

\* INSERT ... VALUES (u, 1, ps, pe) ON CONFLICT (user_id, period_start)
\* DO UPDATE SET analysis_count = analysis_count + 1.
UpsertIncrement(U, u, ps, pe) ==
  IF \E r \in U : r.user_id = u /\ r.period_start = ps
    THEN {IF r.user_id = u /\ r.period_start = ps
            THEN [r EXCEPT !.analysis_count = r.analysis_count + 1]
            ELSE r : r \in U}
    ELSE U \cup {UsageRow(u, 1, ps, pe)}

\* The unique constraints of analysis_usage, as ON CONFLICT targets.
UsageConflictTargets == {"user_id,period_start"}

\* supabase .upsert(row, {onConflict: target}) on analysis_usage.  A target
\* that names no unique constraint is refused by the database (42P10) and
\* the statement writes nothing; the handlers do not look at the error.
UpsertUsage(U, row, target) ==
  IF target \notin UsageConflictTargets
    THEN U
    ELSE {r \in U : ~(r.user_id = row.user_id /\ r.period_start = row.period_start)}
           \cup {row}

\* -------------------------------------------------------- BEFORE INSERT
\* The outcome of a statement that raised nothing.
NoError == [code |-> "00000", hint |-> "", message |-> << >>]

\* Variant: the limit is reported as a plain check violation.
QuotaExceededAsCheckViolation ==
  [code |-> "23514", hint |-> "",
   message |-> <<"Free", "plan", "limit", "reached">>]

\* RAISE EXCEPTION ... USING ERRCODE = 'P0001', HINT = 'upgrade_required';
\* the message word by word.
QuotaExceeded ==
  [code |-> "P0001", hint |-> "upgrade_required",
   message |-> <<"Free", "plan", "limit", "reached:", "maximum", "3", "analyses",
                 "per", "billing", "period.", "Please", "upgrade", "to", "pro",
                 "or", "enterprise", "plan.">>]

\* enforce_subscription_limits(): the locals after the limit check, and the
\* exception the check raised.
EnforceCheck(S, U, u, t) ==
  LET sub == ResolveSubscription(S, u, t)
      cnt == IF sub.plan = "free"
               THEN CurrentCount(U, u, sub.period_start, sub.period_end)
               ELSE 0
      err == IF sub.plan = "free" /\ cnt >= FreeLimit THEN QuotaExceeded ELSE NoError
  IN [plan |-> sub.plan, period_start |-> sub.period_start,
      period_end |-> sub.period_end, current_count |-> cnt,
      error |-> err, allowed |-> err = NoError]

\* --------------------------------------------------------- AFTER INSERT
\* increment_analysis_usage(): period of the active subscription, else the
\* calendar month of the transaction.
IncrementAnalysisUsage(S, U, new) ==
  LET act == ActiveSubs(S, new.user_id)
      ps == IF act = {} THEN new.txn_month
            ELSE (CHOOSE r \in act : TRUE).current_period_start
      pe == IF act = {} THEN new.txn_month + MonthLen
            ELSE (CHOOSE r \in act : TRUE).current_period_end
  IN UpsertIncrement(U, new.user_id, ps, pe)

\* increment_analysis_usage_on_insert(): always the calendar month.
IncrementAnalysisUsageOnInsert(U, new) ==
  UpsertIncrement(U, new.user_id, new.txn_month, new.txn_month + MonthLen)

\* Both AFTER INSERT triggers of property_analysis, in name order:
\* increment_analysis_usage_trigger, then trigger_increment_analysis_usage.
AfterInsertTriggers(S, U, new) ==
  IncrementAnalysisUsageOnInsert(IncrementAnalysisUsage(S, U, new), new)

\* ------------------------------------------------------------- bookkeeping
RECURSIVE SumOver(_, _)
SumOver(f, D) ==
  IF D = {} THEN 0
  ELSE LET d == CHOOSE x \in D : TRUE IN f[d] + SumOver(f, D \ {d})

RowsOf(B, u) == {r \in BagToSet(B) : r.user_id = u}
CountOf(B, u) == SumOver([r \in RowsOf(B, u) |-> CopiesIn(r, B)], RowsOf(B, u))

\* Inserts of user u that committed, and inserts begun by anybody.
Approved(u) == CountOf(analyses, u)
Attempts ==
  BagCardinality(inflight) + BagCardinality(analyses) + SumOver(rejected, DOMAIN rejected)

\* ------------------------------------------------------------------ actions
Tick ==
  /\ now < MaxTime
  /\ now' = now + 1
  /\ UNCHANGED <<authUsers, subs, usage, analyses, inflight, rejected, gate, calls, webhook>>

\* Variant: provisioning writes the free row over the row it finds.
HandleNewUserSubscriptionOverwriting(S, u, t) ==
  UpsertSub(S, SubRow(u, "free", "active", NULL, NULL, MonthStart(t), MonthEnd(t)))

\* handle_new_user_subscription() for the new user u at time t.
HandleNewUserSubscription(S, u, t) ==
  InsertSubDoNothing(S, SubRow(u, "free", "active", NULL, NULL, MonthStart(t), MonthEnd(t)))

\* AFTER INSERT ON auth.users: handle_new_user_subscription() and
\* create_analysis_usage_on_signup().
Signup(u) ==
  /\ u \notin authUsers
  /\ authUsers' = authUsers \cup {u}
  /\ subs' = HandleNewUserSubscription(subs, u, now)
  /\ usage' = InsertUsageDoNothing(usage, UsageRow(u, 0, MonthStart(now), MonthEnd(now)))
  /\ UNCHANGED <<now, analyses, inflight, rejected, gate, calls, webhook>>

\* The user_id values a client can write into the row it inserts: its own
\* and somebody else's.
ClientUids == Users \cup {"u2"}

\* Variant: the trigger enforces the limit of the user_id found in the row.
InsertBeginTrustingClient(uid, clientUid, clientPlan) ==
  /\ uid \in authUsers
  /\ LET chk == EnforceCheck(subs, usage, clientUid, now)
     IN IF chk.allowed
          THEN /\ inflight' = inflight (+) SetToBag({NewRow(clientUid, chk.plan, now)})
               /\ UNCHANGED rejected
          ELSE /\ rejected' = [rejected EXCEPT ![uid] = @ + 1]
               /\ UNCHANGED inflight
  /\ UNCHANGED <<now, authUsers, subs, usage, analyses, gate, calls, webhook>>

\* Variant: the row keeps the plan_at_time value sent by the client.
InsertBeginKeepingClientPlan(uid, clientUid, clientPlan) ==
  /\ uid \in authUsers
  /\ LET chk == EnforceCheck(subs, usage, uid, now)
     IN IF chk.allowed
          THEN /\ inflight' = inflight (+) SetToBag({NewRow(uid, clientPlan, now)})
               /\ UNCHANGED rejected
          ELSE /\ rejected' = [rejected EXCEPT ![uid] = @ + 1]
               /\ UNCHANGED inflight
  /\ UNCHANGED <<now, authUsers, subs, usage, analyses, gate, calls, webhook>>

\* Variant: the rejected insert is charged to the usage record all the same.
InsertBeginChargingRejected(uid, clientUid, clientPlan) ==
  /\ uid \in authUsers
  /\ LET chk == EnforceCheck(subs, usage, uid, now)
     IN IF chk.allowed
          THEN /\ inflight' = inflight (+) SetToBag({NewRow(uid, chk.plan, now)})
               /\ UNCHANGED <<rejected, usage>>
          ELSE /\ rejected' = [rejected EXCEPT ![uid] = @ + 1]
               /\ usage' = UpsertIncrement(usage, uid, chk.period_start, chk.period_end)
               /\ UNCHANGED inflight
  /\ UNCHANGED <<now, authUsers, subs, analyses, gate, calls, webhook>>

\* INSERT INTO property_analysis by the session user uid, first half: the
\* BEFORE INSERT trigger.  clientUid and clientPlan are the user_id and
\* plan_at_time the client wrote into the row.
InsertBegin(uid, clientUid, clientPlan) ==
  /\ uid \in authUsers
  /\ LET chk == EnforceCheck(subs, usage, uid, now)
     IN IF chk.allowed
          THEN /\ inflight' = inflight (+) SetToBag({NewRow(uid, chk.plan, now)})
               /\ UNCHANGED rejected
          ELSE /\ rejected' = [rejected EXCEPT ![uid] = @ + 1]
               /\ UNCHANGED inflight
  /\ UNCHANGED <<now, authUsers, subs, usage, analyses, gate, calls, webhook>>

\* Second half: the row is written, the AFTER INSERT triggers run and the
\* transaction commits.
InsertCommit(new) ==
  /\ BagIn(new, inflight)
  /\ inflight' = inflight (-) SetToBag({new})
  /\ analyses' = analyses (+) SetToBag({AnalysisRow(new.user_id, new.plan_at_time)})
  /\ usage' = AfterInsertTriggers(subs, usage, new)
  /\ UNCHANGED <<now, authUsers, subs, rejected, gate, calls, webhook>>

\* ------------------------------------------------------- Stripe webhook
\* Variant: the activation also clears the usage records of the user.
HandleCheckoutCompletedClearingUsage(u, plan, ps) ==
  /\ u \in authUsers
  /\ subs' = {r \in subs : r.user_id # u}
               \cup {SubRow(u, plan, "active", CustomerOf(u), SubscriptionOf(u), ps, ps + MonthLen)}
  /\ usage' = {r \in usage : r.user_id # u}
  /\ UNCHANGED <<now, authUsers, analyses, inflight, rejected, gate, calls, webhook>>

\* checkout.session.completed: the upsert of the provider's subscription.
CheckoutSubs(S, u, plan, ps) ==
  UpsertSub(S, SubRow(u, plan, "active", CustomerOf(u), SubscriptionOf(u), ps, ps + MonthLen))

HandleCheckoutCompleted(u, plan, ps) ==
  /\ u \in authUsers
  /\ subs' = CheckoutSubs(subs, u, plan, ps)
  /\ UNCHANGED <<now, authUsers, usage, analyses, inflight, rejected, gate, calls, webhook>>

\* .update(patch).eq("stripe_subscription_id", sid)
\* patch is a function from the updated columns to their new values.
UpdateSubsWhereSubscription(S, sid, patch) ==
  {IF r.stripe_subscription_id = sid
     THEN [c \in DOMAIN r |-> IF c \in DOMAIN patch THEN patch[c] ELSE r[c]]
     ELSE r : r \in S}

\* Variant: the renewal moves the stored period one month forward.
RenewSubsRollingForward(S, sid, ps) ==
  {IF r.stripe_subscription_id = sid
     THEN [r EXCEPT !.status = "active",
                    !.current_period_start = r.current_period_end,
                    !.current_period_end = r.current_period_end + MonthLen]
     ELSE r : r \in S}

\* invoice.payment_succeeded: the subscription row, then the usage row.
RenewSubs(S, sid, ps) ==
  UpdateSubsWhereSubscription(S, sid,
    [status |-> "active", current_period_start |-> ps,
     current_period_end |-> ps + MonthLen])

\* .select("user_id").eq("stripe_subscription_id", sid).single(), then the
\* upsert of a zero count with the handler's conflict target.
RenewUsage(S, U, sid, ps, target) ==
  LET found == {r \in S : r.stripe_subscription_id = sid}
  IN IF Cardinality(found) # 1 THEN U
     ELSE UpsertUsage(U, UsageRow((CHOOSE r \in found : TRUE).user_id, 0, ps, ps + MonthLen),
                      target)

\* The conflict target the handler names: api/stripe-webhook.ts, and the
\* other copy of the handler in the repository.
WebhookTarget == "user_id"
OtherWebhookTarget == "user_id,period_start"
RenewalTargets == {WebhookTarget, OtherWebhookTarget}

HandleInvoicePaymentSucceeded(sid, ps, target) ==
  /\ subs' = RenewSubs(subs, sid, ps)
  /\ usage' = RenewUsage(subs', usage, sid, ps, target)
  /\ UNCHANGED <<now, authUsers, analyses, inflight, rejected, gate, calls, webhook>>

\* customer.subscription.updated: the payload is a snapshot of the provider's
\* subscription (customer, status, price, period).
MapStatus(st) ==
  IF st = "active" THEN "active"
  ELSE IF st = "past_due" THEN "past_due"
  ELSE IF st = "canceled" THEN "canceled" ELSE "incomplete"

\* .select("user_id").eq("stripe_customer_id", cus).single(): the handler
\* returns when it finds no user, else updates the rows of the subscription.
UpdatedSubs(S, sid, cus, plan, st, ps) ==
  IF Cardinality({r \in S : r.stripe_customer_id = cus}) # 1 THEN S
  ELSE UpdateSubsWhereSubscription(S, sid,
         [plan |-> plan, status |-> MapStatus(st), current_period_start |-> ps,
          current_period_end |-> ps + MonthLen])

HandleSubscriptionUpdated(sid, cus, plan, st, ps) ==
  /\ subs' = UpdatedSubs(subs, sid, cus, plan, st, ps)
  /\ UNCHANGED <<now, authUsers, usage, analyses, inflight, rejected, gate, calls, webhook>>

\* customer.subscription.deleted
\* Variant: the cancellation forgets the provider's customer as well.
DeletedSubsForgettingCustomer(S, sid) ==
  {IF r.stripe_subscription_id = sid
     THEN [r EXCEPT !.plan = "free", !.status = "canceled",
                    !.stripe_subscription_id = NULL, !.stripe_customer_id = NULL]
     ELSE r : r \in S}

DeletedSubs(S, sid) ==
  UpdateSubsWhereSubscription(S, sid,
    [plan |-> "free", status |-> "canceled", stripe_subscription_id |-> NULL])

HandleSubscriptionDeleted(sid) ==
  /\ subs' = DeletedSubs(subs, sid)
  /\ UNCHANGED <<now, authUsers, usage, analyses, inflight, rejected, gate, calls, webhook>>

\* invoice.payment_failed
\* Variant: a second failed payment cancels the subscription.
FailedSubsEscalating(S, sid) ==
  {IF r.stripe_subscription_id = sid
     THEN [r EXCEPT !.status = IF r.status = "past_due" THEN "canceled" ELSE "past_due"]
     ELSE r : r \in S}

FailedSubs(S, sid) ==
  UpdateSubsWhereSubscription(S, sid, [status |-> "past_due"])

HandleInvoicePaymentFailed(sid) ==
  /\ subs' = FailedSubs(subs, sid)
  /\ UNCHANGED <<now, authUsers, usage, analyses, inflight, rejected, gate, calls, webhook>>

\* The provider's period is the one that contains the time of the retrieve.
CurrentPeriodStarts == {ps \in Times : ps <= now /\ now < ps + MonthLen}

\* ------------------------------------------------- the webhook request
\* The two handlers of the repository: api/stripe-webhook.ts and its other copy.
Handlers == {"api", "other"}
Methods == {"POST", "GET"}
Signatures == {"missing", "invalid", "valid"}
\* A statement on the database succeeds, or the reads fail, or the writes fail.
Faults == {"none", "read", "write"}

\* The events the provider issues about the subscription of user u.
EventsOf(u) ==
  {[type |-> "checkout.session.completed", user |-> u, plan |-> p, st |-> "active"] :
     p \in PaidPlans}
  \cup {[type |-> "customer.subscription.updated", user |-> u, plan |-> p, st |-> st] :
         p \in {"pro"}, st \in ProviderStatuses}
  \cup {[type |-> t, user |-> u, plan |-> NULL, st |-> NULL] :
         t \in {"customer.subscription.deleted", "invoice.payment_succeeded",
                "invoice.payment_failed"}}

Events == UNION {EventsOf(u) : u \in Users}

\* The conflict target of the renewal's usage upsert in each handler.
TargetOf(h) == IF h = "api" THEN WebhookTarget ELSE OtherWebhookTarget

\* Variant: the event is dispatched without constructEvent having accepted it.
VerifiedWithoutSignature(method, configured, sig) ==
  method = "POST" /\ configured /\ sig # "missing"

\* The request reaches the switch on event.type: it is a POST, the
\* environment is complete (api/stripe-webhook.ts answers 500 otherwise; in
\* the other copy constructEvent fails without the secret), the signature
\* header is there and constructEvent accepts it.
Verified(method, configured, sig) ==
  method = "POST" /\ configured /\ sig = "valid"

\* The tables after the handler of the event ran with the given fault.
ApplyEvent(S, U, ev, ps, target, fault) ==
  LET sid == SubscriptionOf(ev.user)
      newSubs ==
        IF fault = "write" THEN S
        ELSE IF ev.type = "checkout.session.completed"
          THEN CheckoutSubs(S, ev.user, ev.plan, ps)
        ELSE IF ev.type = "customer.subscription.updated"
          THEN IF fault = "read" THEN S
               ELSE UpdatedSubs(S, sid, CustomerOf(ev.user), ev.plan, ev.st, ps)
        ELSE IF ev.type = "customer.subscription.deleted" THEN DeletedSubs(S, sid)
        ELSE IF ev.type = "invoice.payment_succeeded" THEN RenewSubs(S, sid, ps)
        ELSE FailedSubs(S, sid)
      newUsage ==
        IF ev.type = "invoice.payment_succeeded" /\ fault = "none"
          THEN RenewUsage(newSubs, U, sid, ps, target) ELSE U
  IN [subs |-> newSubs, usage |-> newUsage]

\* A statement of the event's handler failed: the upsert or update under a
\* write fault, the lookup of the user or the usage upsert under a read fault.
StatementFailed(ev, fault) ==
  \/ fault = "write"
  \/ fault = "read" /\ ev.type \in {"customer.subscription.updated",
                                     "invoice.payment_succeeded"}

\* The handler throws: handleCheckoutCompleted, handleSubscriptionUpdated and
\* handleSubscriptionDeleted throw the error of their write; the invoice
\* handlers log it; a failed lookup leaves data empty and the handler returns.
HandlerThrows(ev, fault) ==
  /\ fault = "write"
  /\ ev.type \in {"checkout.session.completed", "customer.subscription.updated",
                  "customer.subscription.deleted"}

\* The status the handler answers with.
ResponseStatus(h, method, configured, sig, ev, fault) ==
  IF method # "POST" THEN 405
  ELSE IF h = "api" /\ ~configured THEN 500
  ELSE IF sig = "missing" THEN 400
  ELSE IF ~Verified(method, configured, sig) THEN 400
  ELSE IF HandlerThrows(ev, fault) THEN 500
  ELSE 200

\* The provider issues an event and keeps it until a delivery is answered 2xx.
ProviderIssues(ev) ==
  /\ ev.user \in authUsers
  /\ ev \notin webhook.pending
  /\ Cardinality(webhook.pending) < MaxPending
  /\ webhook' = [webhook EXCEPT !.pending = @ \cup {ev}]
  /\ UNCHANGED <<now, authUsers, subs, usage, analyses, inflight, rejected, gate, calls>>

\* export default async function handler(req, res): one request, from the
\* method check to the response.  Only the provider can sign, and it signs
\* the events it has not seen acknowledged.
WebhookRequest(h, method, configured, sig, ev, ps, fault) ==
  /\ webhook.requests < MaxRequests
  /\ sig = "valid" => ev \in webhook.pending
  /\ LET handled == Verified(method, configured, sig)
         status == ResponseStatus(h, method, configured, sig, ev, fault)
         after == IF handled THEN ApplyEvent(subs, usage, ev, ps, TargetOf(h), fault)
                  ELSE [subs |-> subs, usage |-> usage]
     IN /\ subs' = after.subs
        /\ usage' = after.usage
        /\ webhook' = [pending |-> IF status \in 200..299 THEN webhook.pending \ {ev}
                                   ELSE webhook.pending,
                       requests |-> webhook.requests + 1,
                       method |-> method, configured |-> configured, sig |-> sig,
                       status |-> status, handled |-> handled,
                       failed |-> handled /\ StatementFailed(ev, fault)]
  /\ UNCHANGED <<now, authUsers, analyses, inflight, rejected, gate, calls>>

\* The INSERT statement with no other transaction running beside it: the
\* BEFORE trigger, the row, the AFTER triggers.
InsertStatement(uid, clientUid, clientPlan) ==
  /\ uid \in authUsers
  /\ inflight = EmptyBag
  /\ LET chk == EnforceCheck(subs, usage, uid, now)
         new == NewRow(uid, chk.plan, now)
     IN IF chk.allowed
          THEN /\ analyses' = analyses (+) SetToBag({AnalysisRow(new.user_id, new.plan_at_time)})
               /\ usage' = AfterInsertTriggers(subs, usage, new)
               /\ UNCHANGED rejected
          ELSE /\ rejected' = [rejected EXCEPT ![uid] = @ + 1]
               /\ UNCHANGED <<analyses, usage>>
  /\ UNCHANGED <<now, authUsers, subs, inflight, gate, calls, webhook>>

\* ------------------------------------------- direct writes by the client
\* analysis_usage policies "Users can insert own usage" and "Users can update
\* own usage": an authenticated client writes any row whose user_id is its own.
ClientInsertUsage(uid, n, ps) ==
  /\ uid \in authUsers
  /\ ~\E r \in usage : r.user_id = uid /\ r.period_start = ps
  /\ usage' = usage \cup {UsageRow(uid, n, ps, ps + MonthLen)}
  /\ UNCHANGED <<now, authUsers, subs, analyses, inflight, rejected, gate, calls, webhook>>

ClientUpdateUsage(uid, n, ps) ==
  /\ uid \in authUsers
  /\ \E r \in usage : r.user_id = uid /\ r.period_start = ps /\ r.analysis_count # n
  /\ usage' = {IF r.user_id = uid /\ r.period_start = ps
                 THEN [r EXCEPT !.analysis_count = n] ELSE r : r \in usage}
  /\ UNCHANGED <<now, authUsers, subs, analyses, inflight, rejected, gate, calls, webhook>>

\* user_subscriptions has row level security with two policies: "Users can read
\* their own subscriptions" (FOR SELECT) and "Service role manages
\* subscriptions" (FOR ALL, USING and WITH CHECK auth.role() = 'service_role').
\* Variant: a policy that lets a user manage the rows of its own user_id.
UsersManageOwnSubscriptions(role, uid, r) ==
  role = "service_role" \/ uid = r.user_id

\* The policy that applies to INSERT, UPDATE and DELETE.
ServiceRoleManagesSubscriptions(role, uid, r) ==
  role = "service_role"

SubscriptionCommands == {"insert", "update", "delete"}

\* A statement on user_subscriptions sent with the user's own session: an
\* INSERT passes when the new row passes WITH CHECK, an UPDATE or a DELETE
\* touches the rows that pass USING.
WriteSubscriptions(S, role, uid, cmd, plan, t) ==
  LET row == SubRow(uid, plan, "active", NULL, NULL, MonthStart(t), MonthEnd(t))
  IN IF cmd = "insert"
       THEN IF ServiceRoleManagesSubscriptions(role, uid, row)
              THEN InsertSubDoNothing(S, row) ELSE S
     ELSE IF cmd = "update"
       THEN {IF r.user_id = uid /\ ServiceRoleManagesSubscriptions(role, uid, r)
               THEN [r EXCEPT !.plan = plan, !.status = "active"] ELSE r : r \in S}
     ELSE {r \in S : ~(r.user_id = uid /\ ServiceRoleManagesSubscriptions(role, uid, r))}

\* gate records the statement and whether it changed the table.
ClientWriteSubscriptions(uid, cmd, plan) ==
  /\ uid \in authUsers
  /\ subs' = WriteSubscriptions(subs, "authenticated", uid, cmd, plan, now)
  /\ gate' = [fn |-> cmd, user |-> uid, readFailed |-> FALSE,
              allowed |-> subs' # subs]
  /\ UNCHANGED <<now, authUsers, usage, analyses, inflight, rejected, calls, webhook>>

\* ------------------------------------------------- client-side pre-checks
\* The limit the client code compares with.
ClientFreeLimit == 3

\* A PostgREST read ended by .single(): the row when exactly one row matches,
\* PGRST116 when none or several match, the storage error when the read fails.
\* data is the set of the rows returned, empty on any error.
Single(rows, fault) ==
  [error |-> IF fault THEN "storage"
             ELSE IF Cardinality(rows) = 1 THEN "none" ELSE "PGRST116",
   data |-> IF ~fault /\ Cardinality(rows) = 1 THEN rows ELSE {}]

\* lib/subscriptionUtils.ts checkUserSubscriptionAndUsage(), for the session
\* user (NULL: nobody is signed in) at client time t.
CheckUserSubscriptionAndUsage(S, U, user, t, subFault, usageFault) ==
  IF user = NULL THEN [allowed |-> FALSE, readFailed |-> FALSE]
  ELSE LET sub == Single(ActiveSubs(S, user), subFault)
           plan == IF sub.data = {} THEN "free" ELSE (CHOOSE r \in sub.data : TRUE).plan
           usg == Single({r \in U : /\ r.user_id = user
                                    /\ r.period_start >= MonthStart(t)
                                    /\ r.period_end < MonthEnd(t)}, usageFault)
           currentCount == IF usg.data = {} THEN 0
                           ELSE (CHOOSE r \in usg.data : TRUE).analysis_count
       IN IF sub.error \notin {"none", "PGRST116"}
            THEN [allowed |-> FALSE, readFailed |-> TRUE]
          ELSE IF plan # "free" THEN [allowed |-> TRUE, readFailed |-> FALSE]
          ELSE [allowed |-> ~(currentCount >= ClientFreeLimit), readFailed |-> usageFault]

\* integrations/supabase/subscription.ts getUserSubscription(): the row of
\* the period that contains t; with nobody signed in, with a failed read and
\* with no row alike the function ends in its catch block, which returns the
\* free plan of the current month.
GetUserSubscription(S, user, t, subFault) ==
  LET sub == IF user = NULL THEN Single({}, FALSE)
             ELSE Single({r \in ActiveSubs(S, user) :
                            r.current_period_start <= t /\ r.current_period_end > t},
                         subFault)
  IN IF sub.data # {}
       THEN LET r == CHOOSE x \in sub.data : TRUE
            IN [plan |-> r.plan, billingPeriodStart |-> r.current_period_start,
                billingPeriodEnd |-> r.current_period_end]
       ELSE [plan |-> "free", billingPeriodStart |-> MonthStart(t),
             billingPeriodEnd |-> MonthEnd(t)]

\* getCurrentUsageCount(): 0 with nobody signed in, with no row and with a
\* failed read.
GetCurrentUsageCount(U, user, t, usageFault) ==
  IF user = NULL THEN 0
  ELSE LET usg == Single({r \in U : /\ r.user_id = user
                                    /\ r.period_start <= t
                                    /\ r.period_end > t}, usageFault)
       IN IF usg.data = {} THEN 0 ELSE (CHOOSE r \in usg.data : TRUE).analysis_count

\* canSubmitAnalysis()
CanSubmitAnalysis(S, U, user, t, subFault, usageFault) ==
  LET subscription == GetUserSubscription(S, user, t, subFault)
      currentCount == GetCurrentUsageCount(U, user, t, usageFault)
  IN [allowed |-> ~(subscription.plan = "free" /\ currentCount >= ClientFreeLimit),
      readFailed |-> user # NULL /\ (subFault \/ usageFault)]

\* The sessions a request can come with: a signed-in user, or nobody.
Sessions == Users \cup {NULL}

\* A page calls checkUserSubscriptionAndUsage().
CallCheckUserSubscriptionAndUsage(session, subFault, usageFault) ==
  /\ session \in authUsers \cup {NULL}
  /\ LET res == CheckUserSubscriptionAndUsage(subs, usage, session, now, subFault, usageFault)
     IN gate' = [fn |-> "checkUserSubscriptionAndUsage", user |-> session,
                 readFailed |-> res.readFailed, allowed |-> res.allowed]
  /\ UNCHANGED <<now, authUsers, subs, usage, analyses, inflight, rejected, calls, webhook>>

\* A page calls canSubmitAnalysis().
CallCanSubmitAnalysis(session, subFault, usageFault) ==
  /\ session \in authUsers \cup {NULL}
  /\ LET res == CanSubmitAnalysis(subs, usage, session, now, subFault, usageFault)
     IN gate' = [fn |-> "canSubmitAnalysis", user |-> session,
                 readFailed |-> res.readFailed, allowed |-> res.allowed]
  /\ UNCHANGED <<now, authUsers, subs, usage, analyses, inflight, rejected, calls, webhook>>

\* INSERT INTO property_analysis with no session: auth.uid() is NULL and the
\* BEFORE INSERT trigger raises before it reads or writes anything.
InsertAnonymous(clientUid, clientPlan) ==
  /\ gate' = [fn |-> "enforce_subscription_limits", user |-> NULL,
              readFailed |-> FALSE, allowed |-> FALSE]
  /\ UNCHANGED <<now, authUsers, subs, usage, analyses, inflight, rejected, calls, webhook>>

\* --------------------------------------------------------- specifications
\* The database at time zero: users that existed before the triggers did.
Init ==
  /\ now = 0
  /\ authUsers \in SUBSET Users
  /\ subs = {}
  /\ usage = {}
  /\ analyses = EmptyBag
  /\ inflight = EmptyBag
  /\ rejected = [u \in Users |-> 0]
  /\ gate = NoCall
  /\ calls = NoCalls
  /\ webhook = NoRequest

\* The database at any time: users that existed before the triggers did, and
\* users that signed up in the current or in an earlier month.
InitAnyTime ==
  /\ now \in Times
  /\ authUsers \in SUBSET Users
  /\ \E signedUp \in SUBSET authUsers, t \in 0..now :
       /\ subs = {SubRow(u, "free", "active", NULL, NULL, MonthStart(t), MonthEnd(t)) :
                    u \in signedUp}
       /\ usage = {UsageRow(u, 0, MonthStart(t), MonthEnd(t)) : u \in signedUp}
  /\ analyses = EmptyBag
  /\ inflight = EmptyBag
  /\ rejected = [u \in Users |-> 0]
  /\ gate = NoCall
  /\ calls = NoCalls
  /\ webhook = NoRequest

\* Concurrent inserts and the four lifecycle events of api/stripe-webhook.ts
\* (activation, renewal, cancellation, failed payment), at one instant.
Next ==
  \/ \E u \in Users : Signup(u)
  \/ \E uid \in Users, clientUid \in ClientUids, clientPlan \in Plans :
        Attempts < MaxAttempts /\ InsertBegin(uid, clientUid, clientPlan)
  \/ \E new \in BagToSet(inflight) : InsertCommit(new)
  \/ \E u \in Users, plan \in PaidPlans, ps \in CurrentPeriodStarts :
        HandleCheckoutCompleted(u, plan, ps)
  \/ \E sid \in SubIds, ps \in CurrentPeriodStarts, target \in {WebhookTarget} :
        HandleInvoicePaymentSucceeded(sid, ps, target)
  \/ \E sid \in SubIds : HandleSubscriptionDeleted(sid)
  \/ \E sid \in SubIds : HandleInvoicePaymentFailed(sid)

Spec == InitAnyTime /\ [][Next]_vars

\* One insert at a time and every webhook event, as time passes.
NextSeq ==
  \/ Tick
  \/ \E u \in Users : Signup(u)
  \/ \E uid \in Users, clientUid \in ClientUids, clientPlan \in Plans :
        Attempts < MaxSeqAttempts /\ InsertStatement(uid, clientUid, clientPlan)
  \/ \E u \in Users, plan \in PaidPlans, ps \in CurrentPeriodStarts :
        HandleCheckoutCompleted(u, plan, ps)
  \/ \E sid \in SubIds, ps \in CurrentPeriodStarts, target \in RenewalTargets :
        HandleInvoicePaymentSucceeded(sid, ps, target)
  \/ \E u \in Users, plan \in PaidPlans, st \in ProviderStatuses, ps \in CurrentPeriodStarts :
        HandleSubscriptionUpdated(SubscriptionOf(u), CustomerOf(u), plan, st, ps)
  \/ \E sid \in SubIds : HandleSubscriptionDeleted(sid)
  \/ \E sid \in SubIds : HandleInvoicePaymentFailed(sid)

SpecSeq == Init /\ [][NextSeq]_vars

\* One insert at a time, and the client's own writes to analysis_usage.
NextClient ==
  \/ \E u \in Users : Signup(u)
  \/ \E uid \in Users, clientUid \in ClientUids, clientPlan \in Plans :
        Attempts < MaxClientAttempts /\ InsertStatement(uid, clientUid, clientPlan)
  \/ \E uid \in Users, n \in 0..MaxClientCount, ps \in {MonthStart(now)} :
        ClientInsertUsage(uid, n, ps)
  \/ \E uid \in Users, n \in 0..MaxClientCount, ps \in {MonthStart(now)} :
        ClientUpdateUsage(uid, n, ps)
  \/ \E uid \in Users, cmd \in SubscriptionCommands, plan \in Plans :
        ClientWriteSubscriptions(uid, cmd, plan)

SpecClient == Init /\ [][NextClient]_vars

\* NumConcurrent inserts of one free-plan user, started together.
InitRace ==
  /\ now = 0
  /\ authUsers = {"u1"}
  /\ \E signedUp \in BOOLEAN :
       /\ subs = IF signedUp
                   THEN {SubRow("u1", "free", "active", NULL, NULL, 0, MonthLen)}
                   ELSE {}
       /\ usage = IF signedUp THEN {UsageRow("u1", 0, 0, MonthLen)} ELSE {}
  /\ analyses = EmptyBag
  /\ inflight = EmptyBag
  /\ rejected = [u \in Users |-> 0]
  /\ gate = NoCall
  /\ calls = NoCalls
  /\ webhook = NoRequest

NextRace ==
  \/ \E clientUid \in ClientUids, clientPlan \in Plans :
        Attempts < NumConcurrent /\ InsertBegin("u1", clientUid, clientPlan)
  \/ \E new \in BagToSet(inflight) : InsertCommit(new)

SpecRace == InitRace /\ [][NextRace]_vars

\* A subscriber after checkout.session.completed, who signed up before the
\* signup triggers existed or since: concurrent inserts while invoices fail
\* and succeed, handled by either copy of the webhook.
InitSubscriber ==
  /\ now \in Times
  /\ authUsers = {"u1"}
  /\ \E plan \in PaidPlans, ps \in Times :
       /\ ps <= now /\ now < ps + MonthLen
       /\ subs = CheckoutSubs({}, "u1", plan, ps)
  /\ \E signedUp \in BOOLEAN, t \in 0..now :
       usage = IF signedUp THEN {UsageRow("u1", 0, MonthStart(t), MonthEnd(t))} ELSE {}
  /\ analyses = EmptyBag
  /\ inflight = EmptyBag
  /\ rejected = [u \in Users |-> 0]
  /\ gate = NoCall
  /\ calls = NoCalls
  /\ webhook = NoRequest

NextSubscriber ==
  \/ \E clientUid \in ClientUids, clientPlan \in Plans :
        Attempts < MaxAttempts /\ InsertBegin("u1", clientUid, clientPlan)
  \/ \E new \in BagToSet(inflight) : InsertCommit(new)
  \/ \E sid \in SubIds, ps \in CurrentPeriodStarts, target \in RenewalTargets :
        HandleInvoicePaymentSucceeded(sid, ps, target)
  \/ \E sid \in SubIds : HandleInvoicePaymentFailed(sid)

SpecSubscriber == InitSubscriber /\ [][NextSubscriber]_vars

\* ------------------------------------------- client-side usage increment
\* The two incrementAnalysisUsage() of the client.
IncrementFns == {"subscription.ts", "subscriptionUtils.ts"}

\* subscription.ts: .select("analysis_count").eq("user_id").eq("period_start",
\* start of the month).single()
ReadMonthUsage(U, user, t) ==
  Single({r \in U : r.user_id = user /\ r.period_start = MonthStart(t)}, FALSE)

\* subscription.ts: .update({analysis_count: newCount}).eq("user_id")
\* .eq("period_start"), newCount being the count read plus one.
UpdateMonthUsage(U, user, t, seen) ==
  {IF r.user_id = user /\ r.period_start = MonthStart(t)
     THEN [r EXCEPT !.analysis_count = seen + 1] ELSE r : r \in U}

\* subscriptionUtils.ts: the upsert of a row with analysis_count 1.
UpsertMonthUsage(U, user, t) ==
  UpsertUsage(U, UsageRow(user, 1, MonthStart(t), MonthEnd(t)), "user_id,period_start")

\* subscriptionUtils.ts, after the rpc increment_analysis_count, which no
\* migration defines, has failed: .gte("period_start", monthStart)
\* .lt("period_end", monthEnd).single()
ReadFallbackUsage(U, user, t) ==
  Single({r \in U : /\ r.user_id = user
                    /\ r.period_start >= MonthStart(t)
                    /\ r.period_end < MonthEnd(t)}, FALSE)

UpdateFallbackUsage(U, user, t, seen) ==
  {IF r.user_id = user /\ r.period_start >= MonthStart(t) /\ r.period_end < MonthEnd(t)
     THEN [r EXCEPT !.analysis_count = seen + 1] ELSE r : r \in U}

\* The first statement of a call: getUser(), then the read of the count
\* (subscription.ts) or the upsert (subscriptionUtils.ts).
StartIncrement(c, fn, user) ==
  /\ calls[c].pc = "idle"
  /\ user # NULL => user \in authUsers
  /\ LET earlier == {d \in CallIds : calls[d].pc # "idle" /\ calls[d].user = user}
         base == IF earlier = {}
                   THEN CurrentCount(usage, user, MonthStart(now), MonthEnd(now))
                   ELSE calls[CHOOSE d \in earlier : TRUE].base
         call == [fn |-> fn, pc |-> "done", user |-> user, seen |-> 0, base |-> base]
         rd == ReadMonthUsage(usage, user, now)
     IN IF user = NULL
          THEN calls' = [calls EXCEPT ![c] = call] /\ UNCHANGED usage
        ELSE IF fn = "subscription.ts"
          THEN /\ calls' = [calls EXCEPT ![c] =
                   IF rd.error # "none" THEN call
                   ELSE [call EXCEPT !.pc = "read",
                                     !.seen = (CHOOSE r \in rd.data : TRUE).analysis_count]]
               /\ UNCHANGED usage
        ELSE /\ usage' = UpsertMonthUsage(usage, user, now)
             /\ calls' = [calls EXCEPT ![c] = [call EXCEPT !.pc = "upserted"]]
  /\ UNCHANGED <<now, authUsers, subs, analyses, inflight, rejected, gate, webhook>>

\* The next statement of a call that has started.
StepIncrement(c) ==
  /\ calls[c].pc \in {"read", "upserted", "fallback"}
  /\ LET call == calls[c]
         rd == ReadFallbackUsage(usage, call.user, now)
     IN IF call.pc = "read"
          THEN /\ usage' = UpdateMonthUsage(usage, call.user, now, call.seen)
               /\ calls' = [calls EXCEPT ![c].pc = "done"]
        ELSE IF call.pc = "upserted"
          THEN /\ calls' = [calls EXCEPT ![c] =
                   IF rd.data = {} THEN [call EXCEPT !.pc = "done"]
                   ELSE [call EXCEPT !.pc = "fallback",
                                     !.seen = (CHOOSE r \in rd.data : TRUE).analysis_count]]
               /\ UNCHANGED usage
        ELSE /\ usage' = UpdateFallbackUsage(usage, call.user, now, call.seen)
             /\ calls' = [calls EXCEPT ![c].pc = "done"]
  /\ UNCHANGED <<now, authUsers, subs, analyses, inflight, rejected, gate, webhook>>

\* The calls of one signed-up user, over a month whose record is missing or
\* holds any count.
InitIncrement ==
  /\ now = 0
  /\ authUsers = {"u1"}
  /\ subs = {}
  /\ usage \in {{}} \cup {{UsageRow("u1", n, 0, MonthLen)} : n \in 0..MaxClientCount}
  /\ analyses = EmptyBag
  /\ inflight = EmptyBag
  /\ rejected = [u \in Users |-> 0]
  /\ gate = NoCall
  /\ calls = NoCalls
  /\ webhook = NoRequest

NextIncrement ==
  \/ \E c \in CallIds, fn \in IncrementFns, user \in Sessions : StartIncrement(c, fn, user)
  \/ \E c \in CallIds : StepIncrement(c)

SpecIncrement == InitIncrement /\ [][NextIncrement]_vars

\* The provider's events about one user, delivered to either handler until
\* they are acknowledged, beside requests that the provider did not send.
InitWebhook ==
  /\ now = 0
  /\ authUsers = {"u1"}
  /\ subs = {}
  /\ usage = {}
  /\ analyses = EmptyBag
  /\ inflight = EmptyBag
  /\ rejected = [u \in Users |-> 0]
  /\ gate = NoCall
  /\ calls = NoCalls
  /\ webhook = NoRequest

NextWebhook ==
  \/ \E ev \in Events : ProviderIssues(ev)
  \/ \E h \in Handlers, configured \in BOOLEAN, ev \in webhook.pending,
        ps \in CurrentPeriodStarts, fault \in Faults :
        WebhookRequest(h, "POST", configured, "valid", ev, ps, fault)
  \/ \E h \in Handlers, method \in Methods, configured \in BOOLEAN, sig \in Signatures,
        ev \in Events, ps \in CurrentPeriodStarts :
        /\ method = "POST" => sig # "valid"
        /\ WebhookRequest(h, method, configured, sig, ev, ps, "none")

SpecWebhook == InitWebhook /\ [][NextWebhook]_vars

\* Two users side by side: each signs up, inserts, and has its own provider
\* customer and subscription, whose checkout, update and deletion events reach
\* the webhook.
PairUsers == {"u1", "u2"}

InitPair ==
  /\ now = 0
  /\ authUsers \in SUBSET PairUsers
  /\ subs = {}
  /\ usage = {}
  /\ analyses = EmptyBag
  /\ inflight = EmptyBag
  /\ rejected = [u \in PairUsers |-> 0]
  /\ gate = NoCall
  /\ calls = NoCalls
  /\ webhook = NoRequest

NextPair ==
  \/ \E u \in PairUsers : Signup(u)
  \/ \E uid \in PairUsers, clientUid \in PairUsers, clientPlan \in {"free"} :
        Attempts < MaxPairAttempts /\ InsertBegin(uid, clientUid, clientPlan)
  \/ \E new \in BagToSet(inflight) : InsertCommit(new)
  \/ \E u \in PairUsers, plan \in {"pro"}, ps \in CurrentPeriodStarts :
        HandleCheckoutCompleted(u, plan, ps)
  \/ \E u \in PairUsers, plan \in {"pro"}, st \in ProviderStatuses, ps \in CurrentPeriodStarts :
        HandleSubscriptionUpdated(SubscriptionOf(u), CustomerOf(u), plan, st, ps)
  \/ \E u \in PairUsers : HandleSubscriptionDeleted(SubscriptionOf(u))

SpecPair == InitPair /\ [][NextPair]_vars

\* The gates as a page and an anonymous client call them, over the
\* databases that signup, inserts and a checkout produce.
NextGate ==
  \/ \E u \in Users : Signup(u)
  \/ \E uid \in Users, clientUid \in ClientUids, clientPlan \in Plans :
        Attempts < MaxSeqAttempts /\ InsertStatement(uid, clientUid, clientPlan)
  \/ \E u \in Users, plan \in PaidPlans, ps \in CurrentPeriodStarts :
        HandleCheckoutCompleted(u, plan, ps)
  \/ \E session \in Sessions, subFault \in BOOLEAN, usageFault \in BOOLEAN :
        CallCheckUserSubscriptionAndUsage(session, subFault, usageFault)
  \/ \E session \in Sessions, subFault \in BOOLEAN, usageFault \in BOOLEAN :
        CallCanSubmitAnalysis(session, subFault, usageFault)
  \/ \E clientUid \in ClientUids, clientPlan \in Plans : InsertAnonymous(clientUid, clientPlan)

SpecGate == Init /\ [][NextGate]_vars

\* ================================================================== claims
\* The row of analysis_usage keyed (u, ps), as a count; 0 when absent.
CountAt(U, u, ps) ==
  LET rows == {r \in U : r.user_id = u /\ r.period_start = ps}
  IN IF rows = {} THEN 0 ELSE (CHOOSE r \in rows : TRUE).analysis_count

\* u never went through checkout: no row, or the row written at signup.
NeverPaid(u) == \A r \in subs : r.user_id = u => r.stripe_customer_id = NULL
NoRow(u) == ~\E r \in subs : r.user_id = u
PaidActive(S, u) == \E r \in ActiveSubs(S, u) : r.plan \in PaidPlans

\* C1: ten concurrent inserts of one free-plan user, starting from count 0,
\* end with exactly 3 approved, 7 rejected and a count of 3.
C1_TenConcurrentInserts ==
  (Attempts = NumConcurrent /\ inflight = EmptyBag)
    => /\ Approved("u1") = FreeLimit
       /\ rejected["u1"] = NumConcurrent - FreeLimit
       /\ CountAt(usage, "u1", 0) = FreeLimit

\* C2: for a free-plan user with no usage this period and one insert at a
\* time, the k-th approved insert leaves the count at k, at most 3 inserts are
\* approved, and an insert is rejected only once 3 were approved.
C2_ThreeThenRejected ==
  \A u \in authUsers :
    (NeverPaid(u) /\ now < MonthLen)
      => /\ CountAt(usage, u, 0) = Approved(u)
         /\ Approved(u) <= FreeLimit
         /\ (rejected[u] > 0 => Approved(u) = FreeLimit)

\* C3: the count of a usage record of a user who was on the free plan for the
\* whole period never exceeds 3.
C3_FreeCountAtMostLimit ==
  \A r \in usage : NeverPaid(r.user_id) => r.analysis_count <= FreeLimit

\* C4: in a new month, a free-plan user whose record of the previous month
\* reached the limit and who has no usage in the new month is approved; with
\* a Subscription row written at signup as well as without any row.
C4_NewMonthApproved ==
  \A u \in authUsers :
    ( /\ NeverPaid(u)
      /\ now >= MonthLen
      /\ CountAt(usage, u, MonthStart(now) - MonthLen) >= FreeLimit
      /\ CountAt(usage, u, MonthStart(now)) = 0 )
      => EnforceCheck(subs, usage, u, now).allowed

\* C5: whatever a free-plan client inserts and whatever it writes to
\* analysis_usage under the row-level policies, it gets at most 3 approved
\* inserts in one billing period.
C5_NoClientBypass ==
  \A u \in authUsers : NeverPaid(u) => Approved(u) <= FreeLimit

\* The period of u's active subscription row.
ActivePeriodStart(S, u) == (CHOOSE r \in ActiveSubs(S, u) : TRUE).current_period_start

\* C6: an insert of a user whose active subscription is pro or enterprise is
\* approved whatever the count, and each approved insert raises the count of
\* the subscription's current period by exactly one.
C6_PaidUnlimitedCountsOne ==
  [][\A u \in authUsers :
       PaidActive(subs, u)
         => /\ EnforceCheck(subs, usage, u, now).allowed
            /\ (Approved(u)' = Approved(u) + 1
                  => CountAt(usage', u, ActivePeriodStart(subs, u))
                       = CountAt(usage, u, ActivePeriodStart(subs, u)) + 1)]_vars

\* C7: when a free-plan user at the limit is upgraded by checkout.session.completed,
\* the activation changes no usage record and the next insert is approved.
C7_UpgradeUnblocks ==
  [][\A u \in authUsers :
       ( /\ ~EnforceCheck(subs, usage, u, now).allowed
         /\ ~\E r \in subs : r.user_id = u /\ r.stripe_subscription_id # NULL
         /\ PaidActive(subs', u) )
         => /\ usage' = usage
            /\ EnforceCheck(subs', usage', u, now').allowed]_vars

\* A user on a paid active plan who was rejected while free, holds a record
\* at the limit, and has an insert stamped with the paid plan.
C7_Witness ==
  \E u \in authUsers :
    /\ PaidActive(subs, u)
    /\ rejected[u] >= 1
    /\ \E r \in usage : r.user_id = u /\ r.analysis_count >= FreeLimit
    /\ \E a \in BagToSet(analyses) : a.user_id = u /\ a.plan_at_time \in PaidPlans
    /\ CopiesIn(AnalysisRow(u, "free"), analyses) >= 2

\* C8: a rejected insert writes no property_analysis row and leaves every
\* usage record as it was.
C8_RejectionChangesNothing ==
  [][\A u \in Users :
       rejected'[u] > rejected[u]
         => /\ usage' = usage
            /\ analyses' = analyses
            /\ inflight' = inflight
            /\ subs' = subs]_vars

\* A free user rejected twice whose record still holds what it held.
C8_Witness ==
  \E u \in authUsers :
    /\ rejected[u] >= 2
    /\ NeverPaid(u)
    /\ CountAt(usage, u, 0) = 2 * Approved(u)

\* C9: a user without a Subscription row is resolved to the free plan and the
\* current calendar month, and an insert of that user persists no row.
C9_DefaultsToFreeMonth ==
  [][\A u \in authUsers :
       NoRow(u)
         => /\ ResolveSubscription(subs, u, now)
                 = [plan |-> "free", period_start |-> MonthStart(now),
                    period_end |-> MonthStart(now) + MonthLen]
            /\ (Approved(u)' # Approved(u) \/ rejected'[u] # rejected[u]
                  \/ inflight' # inflight) => subs' = subs]_vars

\* A user without a row whose insert of the second month was stamped free and
\* charged to that month.
C9_Witness ==
  \E u \in authUsers :
    /\ NoRow(u)
    /\ now >= MonthLen
    /\ CopiesIn(AnalysisRow(u, "free"), analyses) >= 1
    /\ CountAt(usage, u, MonthStart(now)) >= 1

\* C10: applying invoice.payment_succeeded for the same subscription and
\* period a second time changes neither user_subscriptions nor analysis_usage.
C10_RenewalIdempotent ==
  \A sid \in SubIds, ps \in Times, target \in RenewalTargets :
    LET S1 == RenewSubs(subs, sid, ps)
        U1 == RenewUsage(S1, usage, sid, ps, target)
        S2 == RenewSubs(S1, sid, ps)
        U2 == RenewUsage(S2, U1, sid, ps, target)
    IN S2 = S1 /\ U2 = U1

\* A renewal has reset the usage record of a provider period that does not
\* start with a calendar month, after inserts were counted.
C10_Witness ==
  \E r \in subs :
    /\ r.status = "active"
    /\ r.stripe_subscription_id # NULL
    /\ r.current_period_start # MonthStart(r.current_period_start)
    /\ \E z \in usage : /\ z.user_id = r.user_id
                        /\ z.period_start = r.current_period_start
                        /\ z.analysis_count = 0
    /\ Approved(r.user_id) >= 1

\* C11: applying checkout.session.completed, customer.subscription.updated,
\* customer.subscription.deleted or invoice.payment_failed a second time with
\* the same payload leaves user_subscriptions as the first application left
\* it, and neither application touches analysis_usage.
C11_EventsIdempotent ==
  /\ [](/\ \A u \in Users, plan \in PaidPlans, ps \in CurrentPeriodStarts :
            CheckoutSubs(CheckoutSubs(subs, u, plan, ps), u, plan, ps)
              = CheckoutSubs(subs, u, plan, ps)
        /\ \A u \in Users, plan \in PaidPlans, st \in ProviderStatuses, ps \in CurrentPeriodStarts :
            LET sid == SubscriptionOf(u)
                cus == CustomerOf(u)
            IN UpdatedSubs(UpdatedSubs(subs, sid, cus, plan, st, ps), sid, cus, plan, st, ps)
                 = UpdatedSubs(subs, sid, cus, plan, st, ps)
        /\ \A sid \in SubIds :
            /\ DeletedSubs(DeletedSubs(subs, sid), sid) = DeletedSubs(subs, sid)
            /\ FailedSubs(FailedSubs(subs, sid), sid) = FailedSubs(subs, sid))
  /\ [][\/ usage' = usage
        \/ ~ \/ \E u \in Users, plan \in PaidPlans, ps \in CurrentPeriodStarts :
                  HandleCheckoutCompleted(u, plan, ps)
             \/ \E u \in Users, plan \in PaidPlans, st \in ProviderStatuses,
                   ps \in CurrentPeriodStarts :
                  HandleSubscriptionUpdated(SubscriptionOf(u), CustomerOf(u), plan, st, ps)
             \/ \E sid \in SubIds : HandleSubscriptionDeleted(sid)
             \/ \E sid \in SubIds : HandleInvoicePaymentFailed(sid)]_vars

\* A paid subscription that went past_due after inserts were counted, at a
\* provider period that the update event moved off the calendar month.
C11_Witness ==
  \E r \in subs :
    /\ r.status = "past_due"
    /\ r.plan = "enterprise"
    /\ r.current_period_start # MonthStart(r.current_period_start)
    /\ \E z \in usage : z.user_id = r.user_id /\ z.analysis_count >= 2

\* C12: after invoice.payment_succeeded is applied to a subscription that has
\* a row, the row is active with the provider's new period and analysis_usage
\* holds a record (user, start of the new period) with count 0.
C12_RenewalResetsUsage ==
  \A sid \in SubIds, ps \in CurrentPeriodStarts, target \in RenewalTargets :
    LET S1 == RenewSubs(subs, sid, ps)
        U1 == RenewUsage(S1, usage, sid, ps, target)
    IN \A r \in S1 :
         r.stripe_subscription_id = sid
           => /\ r.status = "active"
              /\ r.current_period_start = ps
              /\ r.current_period_end = ps + MonthLen
              /\ \E z \in U1 : /\ z.user_id = r.user_id
                                /\ z.period_start = ps
                                /\ z.analysis_count = 0

\* C13: customer.subscription.deleted sets the rows of the subscription to
\* plan free and status canceled, clears stripe_subscription_id, keeps
\* stripe_customer_id and every other column and row, and leaves
\* analysis_usage unchanged.
C13_CancellationEffect ==
  [][\A sid \in SubIds :
       (HandleSubscriptionDeleted(sid) /\ \E r \in subs : r.stripe_subscription_id = sid)
         => /\ usage' = usage
            /\ subs' = {IF r.stripe_subscription_id = sid
                          THEN SubRow(r.user_id, "free", "canceled", r.stripe_customer_id,
                                      NULL, r.current_period_start, r.current_period_end)
                          ELSE r : r \in subs}
            /\ \A r \in subs : r.stripe_subscription_id = sid
                 => \E q \in subs' : /\ q.user_id = r.user_id
                                      /\ q.stripe_customer_id = CustomerOf(r.user_id)]_vars

\* A canceled subscription that kept its customer, with counted inserts of
\* the user stamped with the paid plan.
C13_Witness ==
  \E r \in subs :
    /\ r.status = "canceled"
    /\ r.plan = "free"
    /\ r.stripe_subscription_id = NULL
    /\ r.stripe_customer_id = CustomerOf(r.user_id)
    /\ \E z \in usage : z.user_id = r.user_id /\ z.analysis_count >= 1
    /\ \E a \in BagToSet(analyses) : a.user_id = r.user_id /\ a.plan_at_time \in PaidPlans

\* u's paid subscription is past_due.
PastDue(S, u) ==
  \E r \in S : /\ r.user_id = u /\ r.status = "past_due" /\ r.plan \in PaidPlans
               /\ r.stripe_subscription_id = SubscriptionOf(u)

\* Inserts of u that the check approved as free-plan inserts, committed or not.
FreeStamped(u) ==
  CopiesIn(AnalysisRow(u, "free"), analyses)
    + SumOver([r \in RowsOf(inflight, u) |->
                 IF r.plan_at_time = "free" THEN CopiesIn(r, inflight) ELSE 0],
              RowsOf(inflight, u))

\* C14: while a paid subscription is past_due the check treats the user as a
\* free-plan user of the current calendar month and approves at most 3 inserts
\* in that month; invoice.payment_succeeded makes the row active and the
\* user unlimited again.
C14_PastDueFallsBackToFree ==
  \A u \in authUsers :
    PastDue(subs, u)
      => /\ EnforceCheck(subs, usage, u, now).plan = "free"
         /\ EnforceCheck(subs, usage, u, now).period_start = MonthStart(now)
         /\ FreeStamped(u) <= FreeLimit
         /\ \A ps \in CurrentPeriodStarts :
              LET S1 == RenewSubs(subs, SubscriptionOf(u), ps)
              IN PaidActive(S1, u) /\ EnforceCheck(S1, usage, u, now).allowed

ClientGates == {"checkUserSubscriptionAndUsage", "canSubmitAnalysis"}

\* C15: a client-side pre-check whose read of user_subscriptions or of
\* analysis_usage failed with a storage error returns allowed = false.
C15_FailClosed ==
  (gate.fn \in ClientGates /\ gate.readFailed) => ~gate.allowed

\* C16: with nobody signed in no gate approves: the BEFORE INSERT trigger
\* rejects the insert and both client-side pre-checks return allowed = false,
\* and the call changes no usage record.
C16_NoUserNoApproval ==
  /\ []((gate.fn # "none" /\ gate.user = NULL) => ~gate.allowed)
  /\ [][(gate' # gate /\ gate'.user = NULL) => usage' = usage]_vars

\* C17: an insert is checked, stored and charged under the session user,
\* whatever user_id the client wrote into the row: the BEFORE trigger decides
\* on the session user's subscription and count and stores the session user
\* in the row, and the AFTER triggers change usage records of that user only.
C17_SessionUserOnly ==
  [][/\ \A uid \in Users, clientUid \in ClientUids, clientPlan \in Plans :
          InsertBegin(uid, clientUid, clientPlan)
            => LET chk == EnforceCheck(subs, usage, uid, now)
               IN IF chk.allowed
                    THEN /\ inflight' = inflight (+) SetToBag({NewRow(uid, chk.plan, now)})
                         /\ rejected' = rejected
                    ELSE /\ inflight' = inflight
                         /\ rejected'[uid] = rejected[uid] + 1
     /\ \A new \in BagToSet(inflight) :
          InsertCommit(new)
            => /\ new.user_id \in authUsers
               /\ CountOf(analyses', new.user_id) = CountOf(analyses, new.user_id) + 1
               /\ BagCardinality(analyses') = BagCardinality(analyses) + 1
               /\ \A z \in (usage' \ usage) \cup (usage \ usage') :
                    z.user_id = new.user_id]_vars

\* The session user has committed and rejected inserts, and every row of
\* property_analysis and analysis_usage is that user's.
C17_Witness ==
  \E u \in authUsers :
    /\ Approved(u) >= 2
    /\ rejected[u] >= 1
    /\ \A a \in BagToSet(analyses) : a.user_id = u
    /\ \A z \in usage : z.user_id = u
    /\ usage # {}

\* C18: handle_new_user_subscription() adds a free, active row of the current
\* calendar month for a user without a row, changes nothing for a user with a
\* row (paid or not), and a second run changes nothing: one row per user.
C18_ProvisioningIdempotent ==
  \A u \in Users :
    LET S1 == HandleNewUserSubscription(subs, u, now)
    IN /\ NoRow(u)
            => S1 = subs \cup {SubRow(u, "free", "active", NULL, NULL,
                                      MonthStart(now), MonthStart(now) + MonthLen)}
       /\ ~NoRow(u) => S1 = subs
       /\ HandleNewUserSubscription(S1, u, now) = S1
       /\ Cardinality({r \in S1 : r.user_id = u}) = 1

\* A user provisioned at signup who holds a paid row since.
C18_Witness ==
  \E r \in subs :
    /\ r.plan \in PaidPlans
    /\ r.status = "active"
    /\ \E z \in usage : /\ z.user_id = r.user_id
                        /\ z.analysis_count = 0
                        /\ z.period_start = MonthStart(now)

\* C19: after any sequence of signup provisioning, activation, update,
\* renewal, failed-payment and cancellation events, duplicates included, a
\* user has at most one row in user_subscriptions.
C19_OneSubscriptionPerUser ==
  \A u \in Users : Cardinality({r \in subs : r.user_id = u}) <= 1

\* A row that an activation wrote over the one of the signup, and that an
\* update event of an unpaid subscription rewrote in a later month.
C19_Witness ==
  \E r \in subs :
    /\ r.status = "incomplete"
    /\ r.stripe_customer_id # NULL
    /\ r.current_period_start >= MonthLen
    /\ \E z \in usage : /\ z.user_id = r.user_id
                        /\ z.period_start = 0
                        /\ z.analysis_count = 0
    /\ Cardinality({q \in subs : q.user_id = r.user_id}) = 1

\* C20: after any interleaving of inserts, the signup row and renewal
\* resets, analysis_usage holds at most one row per (user_id, period_start).
C20_OneUsagePerPeriod ==
  \A r1 \in usage, r2 \in usage :
    (r1.user_id = r2.user_id /\ r1.period_start = r2.period_start) => r1 = r2

\* Rows of two periods, both charged by inserts, one of them reset by a
\* renewal while an insert was between its check and its commit.
C20_Witness ==
  /\ Cardinality(usage) >= 2
  /\ \E z \in usage : z.analysis_count >= 2
  /\ \E z \in usage : z.analysis_count = 0 /\ z.period_start # MonthStart(z.period_start)
  /\ inflight # EmptyBag
  /\ BagCardinality(analyses) >= 2

\* The words of a message.
Words(msg) == {msg[i] : i \in DOMAIN msg}

\* C21: an insert rejected for the limit raises SQLSTATE P0001 with hint
\* upgrade_required and a message that names the limit, frames it per billing
\* period and tells the user to upgrade; an approved insert raises nothing.
C21_QuotaErrorReported ==
  [][\A u \in Users :
       LET err == EnforceCheck(subs, usage, u, now).error
       IN /\ rejected'[u] > rejected[u]
               => /\ err.code = "P0001"
                  /\ err.hint = "upgrade_required"
                  /\ ToString(FreeLimit) \in Words(err.message)
                  /\ \E i \in DOMAIN err.message :
                       /\ i + 1 \in DOMAIN err.message
                       /\ err.message[i] = "billing"
                       /\ err.message[i + 1] = "period."
                  /\ "upgrade" \in Words(err.message)
          /\ CountOf(inflight', u) > CountOf(inflight, u)
               => err.code # "P0001" /\ err.hint # "upgrade_required"]_vars

\* A user rejected for the limit, with an approved insert not yet committed.
C21_Witness ==
  \E u \in authUsers :
    /\ rejected[u] >= 1
    /\ CountOf(inflight, u) >= 1
    /\ Approved(u) >= 1

\* C22: every approved insert raises the count of the record of the user's
\* current period by exactly one, the record being created at 1 when absent,
\* with all AFTER INSERT triggers of property_analysis run.
C22_ApprovedCountsOnce ==
  [][\A u \in authUsers :
       Approved(u)' = Approved(u) + 1
         => LET p == ResolveSubscription(subs, u, now)
            IN CountAt(usage', u, p.period_start)
                 = CountAt(usage, u, p.period_start) + 1]_vars

\* C23: the count of a (user, period) record never decreases, except that a
\* renewal which moves the subscription to a new period may set the record of
\* that period to 0: a renewal of the period the subscription is already in
\* leaves the counts of that period alone.
C23_CountNeverDecreases ==
  [][\A z \in usage :
       \/ \E z2 \in usage' : /\ z2.user_id = z.user_id
                              /\ z2.period_start = z.period_start
                              /\ z2.analysis_count >= z.analysis_count
       \/ /\ CountAt(usage', z.user_id, z.period_start) = 0
          /\ \E r \in subs, r2 \in subs' :
               /\ r.user_id = z.user_id
               /\ r2.user_id = z.user_id
               /\ r2.current_period_start = z.period_start
               /\ r.current_period_start # z.period_start]_vars

\* C24: whenever an insert of a free-plan user is decided from a usage record,
\* that record's period contains the time of the decision: a record of a
\* period that has ended is never the one consulted.
C24_ConsultedPeriodIsCurrent ==
  [][\A u \in authUsers :
       LET chk == EnforceCheck(subs, usage, u, now)
       IN (/\ Approved(u)' > Approved(u) \/ rejected'[u] > rejected[u]
           /\ chk.plan = "free")
          => \A z \in usage :
               (/\ z.user_id = u
                /\ z.period_start = chk.period_start
                /\ z.period_end = chk.period_end)
               => z.period_start <= now /\ now < z.period_end]_vars

\* C25: in every reachable state a subscription row whose status is canceled
\* has plan free, whichever provider event cancelled it.
C25_CanceledIsFree ==
  \A r \in subs : r.status = "canceled" => r.plan = "free"

\* C26: the row of every approved insert carries as plan_at_time the plan the
\* limit check resolved for that insert (free without an active subscription),
\* whatever the client sent, and the stored row keeps that value.
C26_PlanStampedFromCheck ==
  [][\A u \in Users :
       /\ CountOf(inflight', u) > CountOf(inflight, u)
            => \E new \in BagToSet(inflight') :
                 /\ CopiesIn(new, inflight') = CopiesIn(new, inflight) + 1
                 /\ new.user_id = u
                 /\ new.plan_at_time = ResolveSubscription(subs, u, now).plan
                 /\ ActiveSubs(subs, u) = {} => new.plan_at_time = "free"
       /\ Approved(u)' > Approved(u)
            => \E new \in BagToSet(inflight) :
                 /\ CopiesIn(new, inflight') = CopiesIn(new, inflight) - 1
                 /\ new.user_id = u
                 /\ analyses' = analyses
                       (+) SetToBag({AnalysisRow(u, new.plan_at_time)})]_vars

\* Rows stamped free and rows stamped with a paid plan have both been created.
C26_Witness ==
  \E u \in authUsers, p \in PaidPlans :
    /\ BagIn(AnalysisRow(u, "free"), analyses)
    /\ BagIn(AnalysisRow(u, p), analyses)
    /\ PaidActive(subs, u)

\* C27: request handling never changes a subscription row: an approved or a
\* rejected insert, a write of the client on its usage records and a statement
\* of the client on user_subscriptions all leave the table as it was; of the
\* steps of a client only signup provisioning writes it.
C27_RequestsLeaveSubscriptions ==
  [][/\ (\/ Attempts' # Attempts
         \/ usage' # usage /\ authUsers' = authUsers
         \/ gate'.fn \in SubscriptionCommands /\ gate' # gate) => subs' = subs
     /\ subs' # subs => authUsers' # authUsers]_vars

\* The user was provisioned, had an insert approved and one rejected, and a
\* statement on user_subscriptions was sent from its session.
C27_Witness ==
  \E u \in authUsers :
    /\ Approved(u) >= 1
    /\ rejected[u] >= 1
    /\ gate.fn \in SubscriptionCommands
    /\ gate.user = u
    /\ \E r \in subs : r.user_id = u

\* C28: an insert or a provider event of one user never changes a
\* subscription or usage row of another user, and whether the insert of a user
\* is approved or rejected is decided by the rows of that user alone.
C28_UsersIsolated ==
  [][\A a \in PairUsers :
       LET others(S) == {r \in S : r.user_id # a}
           own(S) == {r \in S : r.user_id = a}
           begun == CountOf(inflight', a) > CountOf(inflight, a)
           refused == rejected'[a] > rejected[a]
       IN /\ (begun \/ refused \/ Approved(a)' > Approved(a))
               => others(subs') = others(subs) /\ others(usage') = others(usage)
          /\ (begun \/ refused)
               => (begun <=> EnforceCheck(own(subs), own(usage), a, now).allowed)
          /\ (own(subs') # own(subs) \/ own(usage') # own(usage))
               => others(subs') = others(subs) /\ others(usage') = others(usage)
          /\ \A r \in own(subs') :
               r.stripe_subscription_id \in {NULL, SubscriptionOf(a)}]_vars

\* One user was rejected at its limit while the other, a subscriber whose
\* subscription the provider then cancelled, had an insert approved.
C28_Witness ==
  \E a \in authUsers, b \in authUsers :
    /\ a # b
    /\ rejected[a] >= 1
    /\ Approved(b) >= 1
    /\ \E r \in subs : r.user_id = b /\ r.status = "canceled"
    /\ \E z \in usage : z.user_id = a /\ z.analysis_count >= FreeLimit
    /\ \E z \in usage : z.user_id = b /\ z.analysis_count < FreeLimit

\* C29: every completed call of the client's incrementAnalysisUsage() raises
\* the month's count by exactly one: once no call is in progress, the count is
\* the count the first call found (0 without a record) plus the number of
\* calls of the user, whether they ran one after the other or together.
C29_ClientIncrementExact ==
  \A u \in authUsers :
    LET mine == {c \in CallIds : calls[c].pc # "idle" /\ calls[c].user = u}
    IN (mine # {} /\ \A c \in CallIds : calls[c].pc \in {"idle", "done"})
       => CurrentCount(usage, u, MonthStart(now), MonthEnd(now))
            = calls[CHOOSE c \in mine : TRUE].base + Cardinality(mine)

\* C30: for every approved insert of a free-plan user, the usage records the
\* AFTER INSERT step creates or increments are the one record, of the same
\* user, period_start and period_end, whose count the BEFORE INSERT check
\* consulted.
C30_IncrementsConsultedRecord ==
  [][\A u \in authUsers :
       LET chk == EnforceCheck(subs, usage, u, now)
       IN (Approved(u)' > Approved(u) /\ chk.plan = "free")
          => \A z \in usage' \ usage :
               /\ z.user_id = u
               /\ z.period_start = chk.period_start
               /\ z.period_end = chk.period_end]_vars

\* C31: once the cancellation of the user's subscription has been applied, no
\* event of that subscription that is delivered afterwards (its activation, an
\* update, a renewal) puts the user back on an active paid plan.
C31_CancellationSticks ==
  [][\A u \in Users :
       (\E r \in subs : r.user_id = u /\ r.status = "canceled")
         => ~PaidActive(subs', u)]_vars

\* C32: in every state and at every time, each client-side pre-check, its
\* reads succeeding, returns allowed for a signed-in user exactly when the
\* BEFORE INSERT check would approve an insert of that user.
C32_ClientChecksAgreeWithTrigger ==
  \A u \in authUsers :
    LET approve == EnforceCheck(subs, usage, u, now).allowed
    IN /\ CanSubmitAnalysis(subs, usage, u, now, FALSE, FALSE).allowed = approve
       /\ CheckUserSubscriptionAndUsage(subs, usage, u, now, FALSE, FALSE).allowed = approve

\* C33: a verified event whose handler fails at the storage layer is answered
\* with a status outside 2xx, so that the provider delivers it again: the
\* provider stops delivering an event only once the event's effect is in the
\* subscription rows.
C33_FailureIsNotAcknowledged ==
  [][/\ (webhook'.requests > webhook.requests /\ webhook'.failed)
          => webhook'.status \notin 200..299
     /\ \A ev \in webhook.pending \ webhook'.pending :
          \E ps \in CurrentPeriodStarts :
            subs' = ApplyEvent(subs, usage, ev, ps, WebhookTarget, "none").subs]_vars

\* C34 as stated: a webhook request that is not a POST, has no stripe-signature
\* header or fails the signature verification is answered with 405 or 400,
\* changes no subscription and no usage row, and no event handler runs unless
\* the verification succeeded.
C34_UnverifiedRequestRefused ==
  [][webhook'.requests > webhook.requests
       => /\ (webhook'.method # "POST" \/ webhook'.sig \in {"missing", "invalid"})
               => /\ webhook'.status \in {405, 400}
                  /\ ~webhook'.handled
                  /\ subs' = subs /\ usage' = usage
          /\ webhook'.handled => webhook'.method = "POST" /\ webhook'.sig = "valid"]_vars

\* C34 amended: such a request is answered with 405 or 400, or with 500 when
\* the deployment lacks a required environment variable, which
\* api/stripe-webhook.ts checks before it looks at the signature; it changes
\* no row and no event handler runs unless the verification succeeded.
C34_UnverifiedRequestRefusedOr500 ==
  [][webhook'.requests > webhook.requests
       => /\ (webhook'.method # "POST" \/ webhook'.sig \in {"missing", "invalid"})
               => /\ \/ webhook'.status \in {405, 400}
                     \/ ~webhook'.configured /\ webhook'.status = 500
                  /\ ~webhook'.handled
                  /\ subs' = subs /\ usage' = usage
          /\ webhook'.handled => webhook'.method = "POST" /\ webhook'.sig = "valid"]_vars

\* A request with a signature that does not verify was answered 400 while the
\* user held a subscription row and the provider had an event to deliver.
C34_Witness ==
  /\ webhook.requests >= 2
  /\ webhook.method = "POST"
  /\ webhook.sig = "invalid"
  /\ webhook.status = 400
  /\ webhook.pending # {}
  /\ subs # {}

====
